---- MODULE Spec2Model ----
(***************************************************************************)
(* Model of backend/api/views.py of foodgram-project-react: the favorite   *)
(* and shopping-cart endpoints of RecipeViewSet (post_list, delete_list),  *)
(* the shopping-list aggregation of download_shopping_cart and the         *)
(* document produced by convert_pdf.                                       *)
(*                                                                         *)
(* Python strings are sequences of Unicode code points; str.encode() and   *)
(* the f-strings are computed character by character.                      *)
(***************************************************************************)
EXTENDS Integers, Sequences, FiniteSets, TLC

\* ------------------------------------------------------------------ bounds

\* Users are 1..MaxUser (request.user).
MaxUser == 2
\* Concurrent POST requests of the interleaved specification.
MaxProc == 2

Users == 1..MaxUser
Procs == 1..MaxProc

\* The two models post_list and delete_list are called with.
Models == {"Favorite", "ShoppingCart"}

\* ------------------------------------------------------- database content

\* Recipe rows, by pk.  Pks are the values of pk a request may carry: the
\* recipes and one pk of no recipe.
Recipes == {1, 2}
Pks == Recipes \cup {3}

\* Ingredient rows: id -> (name, measurement_unit).  Ingredients 1 and 3
\* carry the same name with different units.
Ingredient ==
    [i \in 1..3 |->
        CASE i = 1 -> [name |-> "flour", measurement_unit |-> "g"]
          [] i = 2 -> [name |-> "egg", measurement_unit |-> "pcs"]
          [] i = 3 -> [name |-> "flour", measurement_unit |-> "cup"]]

Names == {Ingredient[i].name : i \in DOMAIN Ingredient}

RECURSIVE Pow2(_)
Pow2(n) == IF n = 0 THEN 1 ELSE 2 * Pow2(n - 1)

\* The RecipeIngredient tables the model starts from.  Every recipe has two
\* rows; each row's amount is a distinct power of two, so that a sum of
\* amounts determines the rows that were added up.
\*   book 1: every recipe needs flour (g) and egg (pcs);
\*   book 2: the ingredients rotate, so that flour appears in g and in cup.
Books == {1, 2}

RowIngredient(book, r, k) ==
    IF book = 1 THEN k ELSE ((r + k) % 3) + 1

RecipeIngredientTable(book) ==
    {[id |-> 2 * (r - 1) + k,
      recipe |-> r,
      ingredient |-> RowIngredient(book, r, k),
      amount |-> Pow2(2 * (r - 1) + k - 1)] : r \in Recipes, k \in 1..2}

\* ------------------------------------------------------------------- state

VARIABLES
    recipe_ingredients,  \* RecipeIngredient.objects: the rows of the table
    objects,             \* objects[model][<<user, recipe>>]: number of rows
    response,            \* what the last finished request returned
    remembered,          \* one earlier download, kept to compare file names
    pc,                  \* interleaved specification: position of each request
    request              \* interleaved specification: each request's arguments

vars == <<recipe_ingredients, objects, response, remembered, pc, request>>

NoResponse ==
    [action |-> "", method |-> "", user |-> 0, pk |-> 0,
     kind |-> "none", status |-> 0, raised |-> "",
     items |-> <<>>, ingredient_list |-> <<>>, filename |-> <<>>, pdf |-> <<>>]

\* rest_framework Response(status=...) of the favorite / shopping_cart actions.
Response(action, method, user, pk, status) ==
    [NoResponse EXCEPT !.action = action, !.method = method, !.user = user,
                       !.pk = pk, !.kind = "Response", !.status = status]

NoRequest == [action |-> "", user |-> 0, pk |-> 0, status |-> 0]

NotRemembered == [user |-> 0, ingredient_list |-> <<>>, filename |-> <<>>]

Init ==
    /\ recipe_ingredients \in {RecipeIngredientTable(b) : b \in Books}
    /\ objects = [m \in Models |-> [ur \in Users \X Recipes |-> 0]]
    /\ response = NoResponse
    /\ remembered = NotRemembered
    /\ pc = [p \in Procs |-> "idle"]
    /\ request = [p \in Procs |-> NoRequest]

\* ----------------------------------------------------- post_list, delete_list

\* model.objects.filter(user=user, recipe__id=pk).exists()
Exists(objs, model, user, pk) ==
    /\ pk \in Recipes
    /\ objs[model][<<user, pk>>] > 0

\* model.objects.create(user=user, recipe=recipe): one more row.
Create(objs, model, user, pk) ==
    [objs EXCEPT ![model][<<user, pk>>] = @ + 1]

\* obj.delete() on filter(user=user, recipe__id=pk): every matching row.
Delete(objs, model, user, pk) ==
    [objs EXCEPT ![model][<<user, pk>>] = 0]

ActionModel(action) ==
    IF action = "favorite" THEN "Favorite" ELSE "ShoppingCart"

\* post_list without the exists() check of line 112.
post_list_unchecked(objs, model, user, pk) ==
    IF pk \notin Recipes
    THEN [status |-> 404, objects |-> objs]
    ELSE [status |-> 201, objects |-> Create(objs, model, user, pk)]

\* post_list(model, user, pk): the status returned and the table afterwards.
post_list(objs, model, user, pk) ==
    IF Exists(objs, model, user, pk)
    THEN [status |-> 400, objects |-> objs]
    ELSE IF pk \notin Recipes
         THEN [status |-> 404, objects |-> objs]
         ELSE [status |-> 201, objects |-> Create(objs, model, user, pk)]

\* delete_list whose filter leaves out user=user.
delete_list_any_user(objs, model, user, pk) ==
    IF Exists(objs, model, user, pk)
    THEN [status |-> 204,
          objects |-> [objs EXCEPT ![model] =
                          [ur \in Users \X Recipes |->
                              IF ur[2] = pk THEN 0 ELSE objs[model][ur]]]]
    ELSE [status |-> 400, objects |-> objs]

\* delete_list(model, user, pk)
delete_list(objs, model, user, pk) ==
    IF Exists(objs, model, user, pk)
    THEN [status |-> 204, objects |-> Delete(objs, model, user, pk)]
    ELSE [status |-> 400, objects |-> objs]

\* RecipeViewSet.favorite: Recipe.objects.get(pk) first, then the list call.
favorite(objs, method, user, pk) ==
    IF pk \notin Recipes
    THEN [status |-> 400, objects |-> objs]
    ELSE IF method = "POST"
         THEN post_list(objs, "Favorite", user, pk)
         ELSE delete_list(objs, "Favorite", user, pk)

\* RecipeViewSet.shopping_cart
shopping_cart(objs, method, user, pk) ==
    IF method = "POST"
    THEN post_list(objs, "ShoppingCart", user, pk)
    ELSE delete_list(objs, "ShoppingCart", user, pk)

\* ------------------------------------------------------------------ strings

\* The characters of the names and units of the Ingredient rows.
Text ==
    [flour |-> <<102, 108, 111, 117, 114>>,
     egg |-> <<101, 103, 103>>,
     g |-> <<103>>,
     pcs |-> <<112, 99, 115>>,
     cup |-> <<99, 117, 112>>]

\* 'Список покупок'
Title == <<1057, 1087, 1080, 1089, 1086, 1082, 32,
           1087, 1086, 1082, 1091, 1087, 1086, 1082>>
\* 'Arial'
Arial == <<65, 114, 105, 97, 108>>
\* 'Спасибо, что используете Foodgram Project © '
SignaturePrefix ==
    <<1057, 1087, 1072, 1089, 1080, 1073, 1086, 44, 32, 1095, 1090, 1086, 32,
      1080, 1089, 1087, 1086, 1083, 1100, 1079, 1091, 1077, 1090, 1077, 32,
      70, 111, 111, 100, 103, 114, 97, 109, 32,
      80, 114, 111, 106, 101, 99, 116, 32, 169, 32>>
\* 'shopping_list_' and '.pdf'
FilenamePrefix == <<115, 104, 111, 112, 112, 105, 110, 103, 95,
                    108, 105, 115, 116, 95>>
FilenameSuffix == <<46, 112, 100, 102>>
\* 'measurement_unit' and 'amount', the keys of an entry
KeyUnit == <<109, 101, 97, 115, 117, 114, 101, 109, 101, 110, 116, 95,
             117, 110, 105, 116>>
KeyAmount == <<97, 109, 111, 117, 110, 116>>

\* str(n) of a non-negative int: its decimal digits.
RECURSIVE IntStr(_)
IntStr(n) ==
    IF n < 10 THEN <<48 + n>> ELSE IntStr(n \div 10) \o <<48 + (n % 10)>>

\* repr(s) of a str without quotes or escapes: 's'
Repr(s) == <<39>> \o s \o <<39>>

\* str.encode(): UTF-8 of code points below 0x800, computed over the two
\* halves of the string.
RECURSIVE Encode(_)
Encode(s) ==
    IF s = <<>> THEN <<>>
    ELSE IF Len(s) = 1
         THEN (IF s[1] < 128 THEN s
               ELSE <<192 + (s[1] \div 64), 128 + (s[1] % 64)>>)
         ELSE LET mid == Len(s) \div 2 IN
              Encode(SubSeq(s, 1, mid)) \o Encode(SubSeq(s, mid + 1, Len(s)))

\* ------------------------------------------------------- the aggregation

\* The join without the user of recipe__cart__user: every user's cart rows.
CartJoinAnyUser(rows, objs, user) ==
    UNION {{<<ri, <<u, k>> >> : k \in 1..objs["ShoppingCart"][<<u, ri.recipe>>]} :
              ri \in rows, u \in Users}

\* RecipeIngredient.objects.filter(recipe__cart__user=user): the join of the
\* RecipeIngredient rows with the user's ShoppingCart rows, one result per
\* pair of matching rows.
CartJoin(rows, objs, user) ==
    UNION {{<<ri, k>> : k \in 1..objs["ShoppingCart"][<<user, ri.recipe>>]} :
              ri \in rows}

\* values_list('ingredient__name', 'ingredient__measurement_unit', 'amount')
ValuesList(ri) ==
    <<Ingredient[ri.ingredient].name,
      Ingredient[ri.ingredient].measurement_unit,
      ri.amount>>

\* The query has no order_by: the database may return the joined rows in any
\* order.  Every sequence that lists each joined row once.
Retrievals(joined) ==
    LET n == Cardinality(joined) IN
    {[i \in 1..n |-> ValuesList(f[i][1])] :
        f \in {g \in [1..n -> joined] :
                  \A i, j \in 1..n : i # j => g[i] # g[j]}}

\* Index of the entry of ingredient_list with this name, 0 when there is none.
IndexOf(ingredient_list, name) ==
    IF \E i \in 1..Len(ingredient_list) : ingredient_list[i].name = name
    THEN CHOOSE i \in 1..Len(ingredient_list) : ingredient_list[i].name = name
    ELSE 0

\* The loop's turn with the unit overwritten by every later line-item.
AddItemLastUnit(ingredient_list, item) ==
    LET i == IndexOf(ingredient_list, item[1])
    IN IF i = 0
       THEN Append(ingredient_list,
                   [name |-> item[1], measurement_unit |-> item[2],
                    amount |-> item[3]])
       ELSE [ingredient_list EXCEPT ![i].amount = @ + item[3],
                                    ![i].measurement_unit = item[2]]

\* The loop's turn keyed by name and unit.
AddItemByNameAndUnit(ingredient_list, item) ==
    LET same == {i \in 1..Len(ingredient_list) :
                    /\ ingredient_list[i].name = item[1]
                    /\ ingredient_list[i].measurement_unit = item[2]}
    IN IF same = {}
       THEN Append(ingredient_list,
                   [name |-> item[1], measurement_unit |-> item[2],
                    amount |-> item[3]])
       ELSE [ingredient_list EXCEPT ![CHOOSE i \in same : TRUE].amount =
                                        @ + item[3]]

\* One turn of the loop of download_shopping_cart.  The dict is kept as the
\* sequence of its entries in insertion order.
AddItem(ingredient_list, item) ==
    LET name == item[1]
        i == IndexOf(ingredient_list, name)
    IN IF i = 0
       THEN Append(ingredient_list,
                   [name |-> name, measurement_unit |-> item[2],
                    amount |-> item[3]])
       ELSE [ingredient_list EXCEPT ![i].amount = @ + item[3]]

\* for item in recipe_ingredients: ...
RECURSIVE Aggregate(_, _)
Aggregate(ingredient_list, items) ==
    IF items = <<>> THEN ingredient_list
    ELSE Aggregate(AddItem(ingredient_list, Head(items)), Tail(items))

\* ------------------------------------------------------------ convert_pdf

\* f'{i}. {name} - {info["amount"]} {info["measurement_unit"]}'
BodyLine(i, entry) ==
    IntStr(i) \o <<46, 32>> \o Text[entry.name] \o <<32, 45, 32>>
        \o IntStr(entry.amount) \o <<32>> \o Text[entry.measurement_unit]

\* The body loop with enumerate(data.items()) counting from 0.
RECURSIVE DrawBodyFromZero(_, _, _)
DrawBodyFromZero(data, i, height) ==
    IF i > Len(data) THEN <<>>
    ELSE <<[op |-> "drawString",
            args |-> <<75, height, BodyLine(i - 1, data[i])>>]>>
             \o DrawBodyFromZero(data, i + 1, height - 30)

\* The body loop: one drawString per entry, the cursor 30 lower each time.
RECURSIVE DrawBody(_, _, _)
DrawBody(data, i, height) ==
    IF i > Len(data) THEN <<>>
    ELSE <<[op |-> "drawString", args |-> <<75, height, BodyLine(i, data[i])>>]>>
             \o DrawBody(data, i + 1, height - 30)

\* The canvas operations of convert_pdf, in order.
convert_pdf(data, title, font, font_size, current_year) ==
    LET height == 800 - 30
        foot == height - 30 * Len(data)
    IN <<[op |-> "setTitle", args |-> <<title>>],
         [op |-> "registerFont", args |-> <<font>>],
         [op |-> "setFont", args |-> <<font, font_size>>],
         [op |-> "drawString", args |-> <<50, 800, title \o <<58>> >>],
         [op |-> "setFont", args |-> <<font, font_size>>]>>
       \o DrawBody(data, 1, height)
       \o <<[op |-> "line", args |-> <<50, foot, 550, foot>>],
            [op |-> "setFont", args |-> <<font, font_size - 4>>],
            [op |-> "drawString",
             args |-> <<50, foot - 10, SignaturePrefix \o IntStr(current_year)>>],
            [op |-> "showPage", args |-> <<>>],
            [op |-> "save", args |-> <<>>]>>

\* --------------------------------------------------------------- filename

\* str(ingredient_list): the repr of the dict of dicts.
RECURSIVE EntriesStr(_, _)
EntriesStr(ingredient_list, i) ==
    IF i > Len(ingredient_list) THEN <<>>
    ELSE LET e == ingredient_list[i] IN
         (IF i > 1 THEN <<44, 32>> ELSE <<>>)
         \o Repr(Text[e.name]) \o <<58, 32, 123>>
         \o Repr(KeyUnit) \o <<58, 32>> \o Repr(Text[e.measurement_unit])
         \o <<44, 32>> \o Repr(KeyAmount) \o <<58, 32>> \o IntStr(e.amount)
         \o <<125>>
         \o EntriesStr(ingredient_list, i + 1)

DictStr(ingredient_list) == <<123>> \o EntriesStr(ingredient_list, 1) \o <<125>>

\* hashlib.md5(data).digest(): 16 bytes.  The digest is computed by the
\* hashlib library, outside the repository.  It is represented by a checksum
\* of the bytes; nothing below relies on more than its being a function of
\* the bytes that yields 16 bytes.
RECURSIVE Checksum(_, _, _)
Checksum(bytes, lo, hi) ==
    IF lo > hi THEN 4660
    ELSE IF lo = hi THEN (bytes[lo] * 257 + lo) % 32749
    ELSE LET mid == (lo + hi) \div 2 IN
         (Checksum(bytes, lo, mid) * 31 + Checksum(bytes, mid + 1, hi) * 17
            + hi) % 32749

Digest(h) ==
    [i \in 1..16 |-> ((h * (2 * i + 1)) \div Pow2(i % 5)) % 256]

md5(bytes) == Digest(Checksum(bytes, 1, Len(bytes)))

HexChar(d) == IF d < 10 THEN 48 + d ELSE 87 + d

\* hexdigest(): two lowercase hexadecimal characters per byte.
hexdigest(digest) ==
    [j \in 1..(2 * Len(digest)) |->
        HexChar(IF j % 2 = 1 THEN digest[(j + 1) \div 2] \div 16
                ELSE digest[j \div 2] % 16)]

\* f'shopping_list_{hash_suffix}.pdf' with hexdigest()[:5]
hash_suffix(ingredient_list_str) ==
    SubSeq(hexdigest(md5(Encode(ingredient_list_str))), 1, 5)

Filename(ingredient_list) ==
    FilenamePrefix \o hash_suffix(DictStr(ingredient_list)) \o FilenameSuffix

\* ------------------------------------------------- download_shopping_cart

\* The steps of convert_pdf that may raise, "" for none.  Nothing in
\* convert_pdf or in download_shopping_cart catches an exception.
Faults == {"", "TTFError", "IOError"}
\* timezone.now().year: the year the requests are handled in.
Years == {2024}

\* bool(pdf_buffer): io.BytesIO defines neither __bool__ nor __len__.
Truth(pdf_buffer) == TRUE

\* The response built with `if ingredient_list:` in place of `if pdf_buffer:`.
BuildResponseIfList(user, items, ingredient_list, pdf_buffer, filename) ==
    IF ingredient_list # <<>>
    THEN [NoResponse EXCEPT
             !.action = "download_shopping_cart", !.method = "GET",
             !.user = user, !.kind = "FileResponse", !.status = 200,
             !.items = items, !.ingredient_list = ingredient_list,
             !.filename = filename, !.pdf = pdf_buffer]
    ELSE [NoResponse EXCEPT
             !.action = "download_shopping_cart", !.method = "GET",
             !.user = user, !.kind = "Response", !.status = 500,
             !.items = items, !.ingredient_list = ingredient_list]

\* Lines 186-200: the response built from the buffer convert_pdf returned.
BuildResponse(user, items, ingredient_list, pdf_buffer, filename) ==
    IF Truth(pdf_buffer)
    THEN [NoResponse EXCEPT
             !.action = "download_shopping_cart", !.method = "GET",
             !.user = user, !.kind = "FileResponse", !.status = 200,
             !.items = items, !.ingredient_list = ingredient_list,
             !.filename = filename, !.pdf = pdf_buffer]
    ELSE [NoResponse EXCEPT
             !.action = "download_shopping_cart", !.method = "GET",
             !.user = user, !.kind = "Response", !.status = 500,
             !.items = items, !.ingredient_list = ingredient_list]

\* download_shopping_cart hashing the user together with the mapping.
download_shopping_cart_per_user(user, items, ingredient_list, fault, pdf_buffer, filename) ==
    IF fault # ""
    THEN [NoResponse EXCEPT
             !.action = "download_shopping_cart", !.method = "GET",
             !.user = user, !.kind = "raise", !.raised = fault]
    ELSE [NoResponse EXCEPT
             !.action = "download_shopping_cart", !.method = "GET",
             !.user = user, !.kind = "FileResponse", !.status = 200,
             !.items = items, !.ingredient_list = ingredient_list,
             !.filename = FilenamePrefix
                 \o hash_suffix(IntStr(user) \o DictStr(ingredient_list))
                 \o FilenameSuffix,
             !.pdf = pdf_buffer]

\* What download_shopping_cart ends with.  An exception raised in convert_pdf
\* leaves the view: the view returns no response of its own.
download_shopping_cart(user, items, ingredient_list, fault, pdf_buffer, filename) ==
    IF fault # ""
    THEN [NoResponse EXCEPT
             !.action = "download_shopping_cart", !.method = "GET",
             !.user = user, !.kind = "raise", !.raised = fault]
    ELSE BuildResponse(user, items, ingredient_list, pdf_buffer, filename)

\* A download_shopping_cart request handled from start to end: the query
\* (lines 166-170), the loop (171-179), convert_pdf (181-184), the file name
\* (187-190) and the response.  The retrievals are grouped by the mapping
\* they aggregate to, so that the document and the file name of a mapping
\* are evaluated once.
DownloadRequest(user) ==
    LET retrievals == Retrievals(CartJoin(recipe_ingredients, objects, user)) IN
    /\ response = NoResponse
    /\ \E ingredient_list \in {Aggregate(<<>>, items) : items \in retrievals} :
       \E filename \in {Filename(ingredient_list)}, current_year \in Years :
       \E pdf_buffer \in {convert_pdf(ingredient_list, Title, Arial, 12,
                                      current_year)} :
       \E items \in {it \in retrievals : Aggregate(<<>>, it) = ingredient_list},
          fault \in Faults :
           response' = download_shopping_cart(user, items, ingredient_list,
                                              fault, pdf_buffer, filename)
    /\ UNCHANGED <<recipe_ingredients, objects, remembered, pc, request>>

\* Requests are handled one after the other: the response of a request is
\* sent before the next request is handled.
SendResponse ==
    /\ response # NoResponse
    /\ response' = NoResponse
    /\ UNCHANGED <<recipe_ingredients, objects, remembered, pc, request>>

\* A favorite request handled from start to end.
FavoriteRequest(method, user, pk) ==
    LET r == favorite(objects, method, user, pk) IN
    /\ response = NoResponse
    /\ objects' = r.objects
    /\ response' = Response("favorite", method, user, pk, r.status)
    /\ UNCHANGED <<recipe_ingredients, remembered, pc, request>>

\* A shopping_cart request handled from start to end.
ShoppingCartRequest(method, user, pk) ==
    LET r == shopping_cart(objects, method, user, pk) IN
    /\ response = NoResponse
    /\ objects' = r.objects
    /\ response' = Response("shopping_cart", method, user, pk, r.status)
    /\ UNCHANGED <<recipe_ingredients, remembered, pc, request>>

Next ==
    \/ \E method \in {"POST", "DELETE"}, user \in Users, pk \in Pks :
           FavoriteRequest(method, user, pk)
    \/ \E method \in {"POST", "DELETE"}, user \in Users, pk \in Pks :
           ShoppingCartRequest(method, user, pk)
    \/ \E user \in Users : DownloadRequest(user)
    \/ SendResponse

Spec == Init /\ [][Next]_vars

\* ------------------------------------------- two downloads side by side

\* Keeps the mapping and the file name of one successful download, chosen at
\* any time, so that a later download can be compared with it.
Remember ==
    /\ response.kind = "FileResponse"
    /\ remembered = NotRemembered
    /\ remembered' = [user |-> response.user,
                      ingredient_list |-> response.ingredient_list,
                      filename |-> response.filename]
    /\ UNCHANGED <<recipe_ingredients, objects, response, pc, request>>

\* The shopping-cart and download requests, with one download remembered.
NextFile ==
    \/ \E method \in {"POST", "DELETE"}, user \in Users, pk \in Pks :
           ShoppingCartRequest(method, user, pk)
    \/ \E user \in Users : DownloadRequest(user)
    \/ SendResponse
    \/ Remember

SpecFile == Init /\ [][NextFile]_vars

\* ------------------------------------------------ interleaved POST requests

\* A POST favorite / POST shopping_cart request arrives.  favorite looks the
\* recipe up first (lines 137-141).
PostBegin(p, action, user, pk) ==
    /\ pc[p] = "idle"
    /\ IF action = "favorite" /\ pk \notin Recipes
       THEN /\ pc' = [pc EXCEPT ![p] = "done"]
            /\ request' = [request EXCEPT ![p] =
                   [action |-> action, user |-> user, pk |-> pk, status |-> 400]]
       ELSE /\ pc' = [pc EXCEPT ![p] = "exists"]
            /\ request' = [request EXCEPT ![p] =
                   [action |-> action, user |-> user, pk |-> pk, status |-> 0]]
    /\ UNCHANGED <<recipe_ingredients, objects, response, remembered>>

\* Line 112 of post_list: the exists() query and the 400 answer.
PostExists(p) ==
    /\ pc[p] = "exists"
    /\ IF Exists(objects, ActionModel(request[p].action),
                 request[p].user, request[p].pk)
       THEN /\ pc' = [pc EXCEPT ![p] = "done"]
            /\ request' = [request EXCEPT ![p].status = 400]
       ELSE /\ pc' = [pc EXCEPT ![p] = "create"]
            /\ UNCHANGED request
    /\ UNCHANGED <<recipe_ingredients, objects, response, remembered>>

\* Lines 117-121 of post_list: get_object_or_404, create() and the 201 answer.
PostCreate(p) ==
    /\ pc[p] = "create"
    /\ pc' = [pc EXCEPT ![p] = "done"]
    /\ IF request[p].pk \notin Recipes
       THEN /\ request' = [request EXCEPT ![p].status = 404]
            /\ UNCHANGED objects
       ELSE /\ request' = [request EXCEPT ![p].status = 201]
            /\ objects' = Create(objects, ActionModel(request[p].action),
                                 request[p].user, request[p].pk)
    /\ UNCHANGED <<recipe_ingredients, response, remembered>>

\* POST requests whose steps interleave, and downloads.
NextConc ==
    \/ \E p \in Procs, action \in {"favorite", "shopping_cart"},
          user \in Users, pk \in Pks : PostBegin(p, action, user, pk)
    \/ \E p \in Procs : PostExists(p)
    \/ \E p \in Procs : PostCreate(p)
    \/ \E user \in Users : DownloadRequest(user)
    \/ SendResponse

SpecConc == Init /\ [][NextConc]_vars

\* ------------------------------------------------------------- properties

\* Sum of the amounts of a set of RecipeIngredient rows.
RECURSIVE SumAmounts(_)
SumAmounts(rows) ==
    IF rows = {} THEN 0
    ELSE LET ri == CHOOSE x \in rows : TRUE IN
         ri.amount + SumAmounts(rows \ {ri})

\* The recipes in a user's cart.
CartRecipes(user) ==
    {r \in Recipes : objects["ShoppingCart"][<<user, r>>] > 0}

\* The rows naming an ingredient called `name` in the recipes of a user's cart.
CartRowsNaming(user, name) ==
    {ri \in recipe_ingredients :
        /\ ri.recipe \in CartRecipes(user)
        /\ Ingredient[ri.ingredient].name = name}

\* The amount a mapping gives for a name, 0 when the name is not a key.
MappedAmount(ingredient_list, name) ==
    LET at == {i \in 1..Len(ingredient_list) : ingredient_list[i].name = name}
    IN IF at = {} THEN 0 ELSE ingredient_list[CHOOSE i \in at : TRUE].amount

\* The last request was a download answered with the file.
IsFile ==
    /\ response.action = "download_shopping_cart"
    /\ response.kind = "FileResponse"

\* The line-items of a retrieval with a given name.
ItemsNamed(items, name) == {k \in 1..Len(items) : items[k][1] = name}

\* Position of the first line-item with a given name.
FirstNamed(items, name) ==
    CHOOSE k \in ItemsNamed(items, name) :
        \A j \in ItemsNamed(items, name) : k <= j

RECURSIVE SumItems(_, _)
SumItems(items, ks) ==
    IF ks = {} THEN 0
    ELSE LET k == CHOOSE x \in ks : TRUE IN
         items[k][3] + SumItems(items, ks \ {k})

\* Every row's amount is a distinct power of two and, with at most one cart
\* row per user and recipe, is retrieved once: line-item `item` was added
\* into `entry` exactly when its bit is set in the entry's amount.
AddedInto(entry, item) == (entry.amount \div item[3]) % 2 = 1

\* Two line-items of a retrieval were summed into the same entry.
Merged(ingredient_list, a, b) ==
    \E i \in 1..Len(ingredient_list) :
        /\ AddedInto(ingredient_list[i], a)
        /\ AddedInto(ingredient_list[i], b)

\* C1: the mapping of a download for user U gives, for every ingredient
\* name, the sum of the amounts of the rows naming it in the recipes that
\* are in U's cart at that moment, and nothing from any other recipe.
C1_AmountIsSumOverCart ==
    IsFile =>
        \A name \in Names :
            MappedAmount(response.ingredient_list, name)
                = SumAmounts(CartRowsNaming(response.user, name))

\* A download that merged two rows while another user holds a recipe that
\* the downloading user does not.
C1_Witness ==
    /\ IsFile
    /\ Len(response.items) = 2
    /\ Len(response.ingredient_list) = 1
    /\ \E v \in Users \ {response.user} :
           CartRecipes(v) \ CartRecipes(response.user) # {}

\* A request was handled in this step.
Handled(method) == response = NoResponse /\ response'.method = method

\* C2: a POST favorite / POST shopping_cart for a (user, recipe) pair that
\* has an entry answers 400 and changes no entry; there is never more than
\* one Favorite row and one ShoppingCart row per (user, recipe).
C2_DuplicatePostRejected ==
    /\ [](\A m \in Models, ur \in Users \X Recipes : objects[m][ur] <= 1)
    /\ [][(/\ Handled("POST")
           /\ response'.pk \in Recipes
           /\ objects[ActionModel(response'.action)]
                     [<<response'.user, response'.pk>>] > 0)
          => (response'.status = 400 /\ objects' = objects)]_vars

\* A POST answered 400 for a pair whose one entry is still there.
C2_Witness ==
    /\ response.method = "POST"
    /\ response.status = 400
    /\ response.pk \in Recipes
    /\ objects[ActionModel(response.action)][<<response.user, response.pk>>] = 1

\* C3: a DELETE for a pair with no entry answers 400 and changes nothing;
\* with an entry it answers 204 and removes that user's entry for that
\* recipe in that list, every other entry of both lists staying as it was.
C3_DeleteRemovesOnlyThatEntry ==
    [][Handled("DELETE") =>
        LET m == ActionModel(response'.action)
            u == response'.user
            pk == response'.pk
        IN /\ recipe_ingredients' = recipe_ingredients
           /\ IF pk \in Recipes /\ objects[m][<<u, pk>>] > 0
              THEN /\ response'.status = 204
                   /\ objects'[m][<<u, pk>>] = 0
                   /\ \A mm \in Models, ur \in Users \X Recipes :
                          (mm # m \/ ur # <<u, pk>>)
                              => objects'[mm][ur] = objects[mm][ur]
              ELSE /\ response'.status = 400
                   /\ objects' = objects]_vars

\* A DELETE answered 204 while the same user keeps the recipe in the other
\* list and another user keeps it in the same list.
C3_Witness ==
    /\ response.method = "DELETE"
    /\ response.status = 204
    /\ \E mm \in Models \ {ActionModel(response.action)} :
           objects[mm][<<response.user, response.pk>>] = 1
    /\ \E v \in Users \ {response.user} :
           objects[ActionModel(response.action)][<<v, response.pk>>] = 1

\* C4: when a step of convert_pdf fails, download_shopping_cart itself
\* answers with a Response of status 500.
C4_RenderFailureAnswered500 ==
    (response.action = "download_shopping_cart" /\ response.raised # "")
        => (response.kind = "Response" /\ response.status = 500)

\* C5: every name is a key once; the unit of an entry is the unit of the
\* first line-item retrieved with that name; the amount is the sum of all
\* line-items with that name, whatever their units.
C5_KeyedByNameFirstUnit ==
    IsFile =>
        LET il == response.ingredient_list
            items == response.items
        IN /\ \A i, j \in 1..Len(il) : il[i].name = il[j].name => i = j
           /\ \A i \in 1..Len(il) :
                 /\ ItemsNamed(items, il[i].name) # {}
                 /\ il[i].measurement_unit
                        = items[FirstNamed(items, il[i].name)][2]
                 /\ il[i].amount
                        = SumItems(items, ItemsNamed(items, il[i].name))

\* A download whose retrieval has flour in cup first and flour in g later.
C5_Witness ==
    /\ IsFile
    /\ \E a, b \in 1..Len(response.items) :
           /\ a < b
           /\ response.items[a][1] = "flour" /\ response.items[a][2] = "cup"
           /\ response.items[b][1] = "flour" /\ response.items[b][2] = "g"
           /\ FirstNamed(response.items, "flour") = a
    /\ MappedAmount(response.ingredient_list, "flour") >= 3

\* C6, as stated: two line-items are summed into the same entry exactly
\* when they have the same name and the same unit.
C6_MergedIffSameNameAndUnit ==
    IsFile =>
        \A a, b \in 1..Len(response.items) :
            a # b =>
                (Merged(response.ingredient_list, response.items[a],
                        response.items[b])
                 <=> (/\ response.items[a][1] = response.items[b][1]
                      /\ response.items[a][2] = response.items[b][2]))

\* C6, amended: two line-items are summed into the same entry exactly when
\* they have the same name, whatever their units.
C6_MergedIffSameName ==
    IsFile =>
        \A a, b \in 1..Len(response.items) :
            a # b =>
                (Merged(response.ingredient_list, response.items[a],
                        response.items[b])
                 <=> response.items[a][1] = response.items[b][1])

\* A download that summed a line-item in g and one in cup into one entry,
\* next to an entry of another name.
C6_Witness ==
    /\ IsFile
    /\ Len(response.ingredient_list) = 2
    /\ \E a, b \in 1..Len(response.items) :
           /\ response.items[a][1] = response.items[b][1]
           /\ response.items[a][2] # response.items[b][2]
           /\ Merged(response.ingredient_list, response.items[a],
                     response.items[b])

\* C7: the entries are in the order of the first occurrence of their names
\* in the retrieval; the document has one line per entry in that order,
\* numbered 1..n, the first 30 below the title and each 30 below the one
\* before, then the rule and the signature.
C7_OrderedNumberedLines ==
    IsFile =>
        LET il == response.ingredient_list
            items == response.items
            pdf == response.pdf
            n == Len(response.ingredient_list)
        IN /\ \A k \in 1..Len(items) : MappedAmount(il, items[k][1]) > 0
           /\ \A i, j \in 1..n :
                 i < j => FirstNamed(items, il[i].name)
                              < FirstNamed(items, il[j].name)
           /\ Len(pdf) = n + 10
           /\ pdf[4].op = "drawString" /\ pdf[4].args[2] = 800
           /\ \A i \in 1..n :
                 /\ pdf[5 + i].op = "drawString"
                 /\ pdf[5 + i].args[1] = 75
                 /\ pdf[5 + i].args[2]
                        = (IF i = 1 THEN pdf[4].args[2]
                           ELSE pdf[4 + i].args[2]) - 30
                 /\ pdf[5 + i].args[3]
                        = IntStr(i) \o <<46, 32>> \o Text[il[i].name]
                            \o <<32, 45, 32>> \o IntStr(il[i].amount)
                            \o <<32>> \o Text[il[i].measurement_unit]
           /\ pdf[6 + n].op = "line"
           /\ pdf[6 + n].args = <<50, 770 - 30 * n, 550, 770 - 30 * n>>
           /\ pdf[8 + n].op = "drawString"
           /\ pdf[8 + n].args[2] = 760 - 30 * n
           /\ SubSeq(pdf[8 + n].args[3], 1, Len(SignaturePrefix))
                  = SignaturePrefix

\* A download of two entries from four line-items, egg retrieved first.
C7_Witness ==
    /\ IsFile
    /\ Len(response.items) = 4
    /\ Len(response.ingredient_list) = 2
    /\ response.items[1][1] = "egg"
    /\ response.items[4][1] = "flour"

HexDigits == (48..57) \cup (97..102)

\* C8: two downloads with the same mapping (content and order) get the same
\* file name, whoever asks and whenever; every file name is shopping_list_,
\* five hexadecimal characters and .pdf.
C8_FilenameFromMappingOnly ==
    IsFile =>
        /\ Len(response.filename) = 23
        /\ SubSeq(response.filename, 1, 14) = FilenamePrefix
        /\ \A i \in 15..19 : response.filename[i] \in HexDigits
        /\ SubSeq(response.filename, 20, 23) = FilenameSuffix
        /\ (/\ remembered # NotRemembered
            /\ remembered.ingredient_list = response.ingredient_list)
               => remembered.filename = response.filename

\* A download by one user with the same non-empty mapping as the
\* remembered download of another user.
C8_Witness ==
    /\ IsFile
    /\ remembered # NotRemembered
    /\ remembered.user # response.user
    /\ response.ingredient_list # <<>>
    /\ remembered.ingredient_list = response.ingredient_list

\* C9: a download for a user with an empty cart, convert_pdf raising
\* nothing, is answered with the file: the mapping is empty and the document
\* has the title, the rule and the signature and no ingredient line.
C9_EmptyCartDownload ==
    (/\ response.action = "download_shopping_cart"
     /\ response.raised = ""
     /\ CartRecipes(response.user) = {})
        => /\ response.kind = "FileResponse"
           /\ response.status = 200
           /\ response.ingredient_list = <<>>
           /\ [i \in 1..Len(response.pdf) |-> response.pdf[i].op]
                = <<"setTitle", "registerFont", "setFont", "drawString",
                    "setFont", "line", "setFont", "drawString",
                    "showPage", "save">>
           /\ response.pdf[4].args[3] = Title \o <<58>>
           /\ SubSeq(response.pdf[8].args[3], 1, Len(SignaturePrefix))
                  = SignaturePrefix

\* A download for a user with an empty cart while another user's cart and
\* the user's own favorites are not empty.
C9_Witness ==
    /\ IsFile
    /\ CartRecipes(response.user) = {}
    /\ \E v \in Users : CartRecipes(v) # {}
    /\ \E r \in Recipes : objects["Favorite"][<<response.user, r>>] = 1

\* C10: after two POST requests for the same user and recipe whose steps
\* interleave, there is at most one entry for the pair, at most one of them
\* was answered 201, and a download counts the recipe's rows once.
C10_InterleavedPostsAddOnce ==
    \A p, q \in Procs :
        (/\ p # q
         /\ pc[p] = "done" /\ pc[q] = "done"
         /\ request[p].action = request[q].action
         /\ request[p].user = request[q].user
         /\ request[p].pk = request[q].pk
         /\ request[p].pk \in Recipes)
            => /\ objects[ActionModel(request[p].action)]
                         [<<request[p].user, request[p].pk>>] <= 1
               /\ ~(request[p].status = 201 /\ request[q].status = 201)
               /\ (IsFile /\ response.user = request[p].user)
                     => \A name \in Names :
                            MappedAmount(response.ingredient_list, name)
                              = SumAmounts(CartRowsNaming(response.user, name))

====
